---------------------------- MODULE Spec2Model ----------------------------
(***************************************************************************)
(* hn_daily (src/src/main.rs): a sequential pipeline                       *)
(*   fetch_front_page -> fetch_article_content -> render_html -> files     *)
(* modelled as a state machine, together with the pure functions           *)
(* clean_content, detect_paywall, extract_domain and render_html.          *)
(*                                                                         *)
(* Rust values are represented as follows.                                 *)
(*   Option<T>      a sequence of length 0 (None) or 1 (Some(x))           *)
(*   String         a sequence of one-character strings, where the code    *)
(*                  looks inside the string (content types, article text); *)
(*                  a sequence of components for URLs                      *)
(*   Result<T, E>   a record with an ok flag and an error tag              *)
(***************************************************************************)
EXTENDS Integers, Sequences, FiniteSets, TLC

VARIABLES
    pc,          \* position of main / of the function under check
    err,         \* the error main returned with ("" while none)
    limit,       \* fetch_front_page's parameter
    ids,         \* fetch_front_page: the top-story identifier list
    items,       \* fetch_front_page: the Vec<Item> being built
    apiLast,     \* fetch_front_page: outcome of the latest API request
    apiCalls,    \* fetch_front_page: number of API requests sent
    stories,     \* main: Option<Vec<Item>>, bound when listing returns Ok
    pos,         \* fetch_article_content: number of items the loop has taken
    results,     \* fetch_article_content: Vec<Option<ScrapedContent>>
    fetched,     \* Result of the latest fetch_and_process call
    requests,    \* URLs an article GET was issued for, in order
    console,     \* lines printed on stdout
    outDir,      \* the output directory exists
    written,     \* artifacts written into the output directory, in order
    htmlDoc,     \* Option: the document render_html returned
    toolFound,   \* which::which("wkhtmltopdf"): "unknown", "yes", "no"
    convStatus,  \* the converter run: "notrun", "ok", "failed", "nospawn"
    fUrl,        \* fetch_and_process alone: its url argument
    fResp,       \* fetch_and_process alone: what the network answers
    nIn,         \* normalization alone: the input text
    nOut,        \* normalization alone: Option, normalize(nIn)
    nOut2        \* normalization alone: Option, normalize(normalize(nIn))

vars == << pc, err, limit, ids, items, apiLast, apiCalls, stories, pos,
           results, fetched, requests, console, outDir, written, htmlDoc, toolFound, convStatus,
           fUrl, fResp, nIn, nOut, nOut2 >>

(***************************************************************************)
(* Bounds of the model.                                                    *)
(***************************************************************************)
MaxIds == 3

MaxLimit == 3

MaxSegs == 4

MaxRender == 3

(***************************************************************************)
(* Generic helpers.                                                        *)
(***************************************************************************)
None == << >>

Some(x) == << x >>

Min(a, b) == IF a < b THEN a ELSE b

SeqsUpTo(S, n) == UNION { [1..k -> S] : k \in 0..n }

RECURSIVE Flatten(_)
Flatten(ss) == IF ss = << >> THEN << >> ELSE Head(ss) \o Flatten(Tail(ss))

\* str::contains for a non-empty pattern
Contains(s, pat) ==
    \E i \in 1..(Len(s) - Len(pat) + 1) : SubSeq(s, i, i + Len(pat) - 1) = pat

(***************************************************************************)
(* Strings the code looks inside, as sequences of characters.              *)
(***************************************************************************)
TextHtml == << "t", "e", "x", "t", "/", "h", "t", "m", "l" >>

CtHtml == TextHtml

CtHtmlCharset ==
    TextHtml \o << ";", " ", "c", "h", "a", "r", "s", "e", "t", "=",
                   "u", "t", "f", "-", "8" >>

CtPdf == << "a", "p", "p", "l", "i", "c", "a", "t", "i", "o", "n", "/",
            "p", "d", "f" >>

\* the same media type as text/html, spelled as some servers spell it
CtHtmlUpper == << "T", "e", "x", "t", "/", "H", "T", "M", "L" >>

\* a header value holding a byte outside visible ASCII
CtOpaque == << "\\xE9" >>

NonAscii == { "\\xE9" }

ContentTypeHeaders ==
    { None, Some(CtHtml), Some(CtHtmlCharset), Some(CtPdf), Some(CtHtmlUpper),
      Some(CtOpaque) }

(***************************************************************************)
(* URLs: a sequence of components, << scheme, host or rest, path >>.       *)
(***************************************************************************)
IdSet == { 1, 2 }

Host(id) == IF id = 1 THEN "one.example" ELSE "two.example"

EmptyUrl == << >>

GoodUrl(id) == << "https://", Host(id), "/story" >>

\* no scheme: Url::parse fails
BadUrl == << "not a url" >>

\* parses, but has no host
NoHostUrl == << "data:", "text/plain,hi" >>

\* Url::parse, as far as the code uses it: Result<Url> with host_str()
UrlParse(u) ==
    IF Len(u) >= 2 /\ u[1] \in { "https://", "http://" }
    THEN [ok |-> TRUE, host |-> Some(u[2])]
    ELSE IF Len(u) >= 2 /\ u[1] = "data:"
    THEN [ok |-> TRUE, host |-> None]
    ELSE [ok |-> FALSE, host |-> None]

\* extract_domain: Result<String>
extract_domain(url) ==
    LET parsed == UrlParse(url)
    IN  IF ~parsed.ok THEN [ok |-> FALSE, err |-> "url parse", host |-> ""]
        ELSE IF parsed.host = None
        THEN [ok |-> FALSE, err |-> "no host", host |-> ""]
        ELSE [ok |-> TRUE, err |-> "", host |-> parsed.host[1]]

(***************************************************************************)
(* What the network answers to one article GET.                            *)
(*   sent = FALSE   client.get(url).send() returned Err                    *)
(*   body = None    response.text() returned Err                           *)
(* Every answer is allowed for every url, also for one that does not       *)
(* parse: the checks of fetch_and_process that follow send() are then all  *)
(* exercised.                                                              *)
(***************************************************************************)
StatusCodes == { 200, 404, 503 }

Pages == { "article", "garbage" }

NoResponse == [sent |-> FALSE, status |-> 0, ctype |-> None, body |-> None]

Responses ==
    { NoResponse } \cup
    [sent : { TRUE }, status : StatusCodes, ctype : ContentTypeHeaders,
     body : { None } \cup { Some(p) : p \in Pages }]

\* StatusCode::is_success
is_success(status) == status >= 200 /\ status < 300

\* HeaderValue::to_str: Err unless every byte is visible ASCII
ToStr(v) == IF \E i \in 1..Len(v) : v[i] \in NonAscii THEN None ELSE Some(v)

detect_paywall(response) ==
    LET header == response.ctype
        str == IF header = None THEN None ELSE ToStr(header[1])
        content_type == IF str = None THEN << >> ELSE str[1]
    IN  IF ~Contains(content_type, TextHtml) THEN TRUE ELSE FALSE

(***************************************************************************)
(* The extracted HTML fragment: a sequence of nodes, a tag or a text node. *)
(***************************************************************************)
Tag(name) == [tag |-> TRUE, text |-> << name >>]

Text(chars) == [tag |-> FALSE, text |-> chars]

ArticleContent ==
    << Tag("<div>"), Tag("<p>"), Text(<< "H", "i", " ", " " >>), Tag("<b>"),
       Text(<< "a", "l", "l" >>), Tag("</b>"), Text(<< "\n" >>), Tag("</p>"),
       Tag("</div>") >>

\* readability::extractor::extract: Result<Product { title, content }>
extract(page, parsed_url) ==
    IF page = "article"
    THEN [ok |-> TRUE, title |-> "Article", content |-> ArticleContent]
    ELSE [ok |-> FALSE, title |-> "", content |-> << >>]


(***************************************************************************)
(* clean_content: the text nodes of the fragment joined with one space,    *)
(* then split on whitespace and rebuilt word by word.                      *)
(***************************************************************************)
SoftBreakLen == 30

Whitespace == { " ", "\t", "\n" }

\* root_element().text().collect::<Vec<_>>()
RECURSIVE TextNodes(_)
TextNodes(html) ==
    IF html = << >> THEN << >>
    ELSE IF Head(html).tag THEN TextNodes(Tail(html))
    ELSE << Head(html).text >> \o TextNodes(Tail(html))

\* Vec<&str>::join(" ")
RECURSIVE JoinSpace(_)
JoinSpace(parts) ==
    IF parts = << >> THEN << >>
    ELSE IF Len(parts) = 1 THEN parts[1]
    ELSE parts[1] \o << " " >> \o JoinSpace(Tail(parts))

\* str::split_whitespace: the maximal runs of non-whitespace characters,
\* in order.  A run starts where a non-whitespace character follows the
\* start of the text or a whitespace character, and ends before the next
\* whitespace character or at the end of the text.
WordStarts(text) ==
    { i \in 1..Len(text) :
        text[i] \notin Whitespace /\ (i = 1 \/ text[i - 1] \in Whitespace) }

WordEnd(text, i) ==
    CHOOSE j \in i..Len(text) :
        /\ \A k \in i..j : text[k] \notin Whitespace
        /\ j = Len(text) \/ text[j + 1] \in Whitespace

split_whitespace(text) ==
    LET starts == WordStarts(text)
        nth(n) == CHOOSE i \in starts :
                      Cardinality({ x \in starts : x < i }) = n - 1
    IN  [n \in 1..Cardinality(starts) |->
            SubSeq(text, nth(n), WordEnd(text, nth(n)))]

\* The soft break without the reset of current_line_length.
PushWordNoReset(acc, word) ==
    LET sep == acc.current_line_length > 0
        result1 == IF sep THEN Append(acc.result, " ") ELSE acc.result
        len1 == IF sep THEN acc.current_line_length + 1
                ELSE acc.current_line_length
        result2 == result1 \o word
        len2 == len1 + Len(word)
    IN  IF Len(word) > SoftBreakLen
        THEN [result |-> Append(result2, " "), current_line_length |-> len2]
        ELSE [result |-> result2, current_line_length |-> len2]

\* One pass of the loop body over `word`.
PushWord(acc, word) ==
    LET sep == acc.current_line_length > 0
        result1 == IF sep THEN Append(acc.result, " ") ELSE acc.result
        len1 == IF sep THEN acc.current_line_length + 1
                ELSE acc.current_line_length
        result2 == result1 \o word
        len2 == len1 + Len(word)
    IN  IF Len(word) > SoftBreakLen
        THEN [result |-> Append(result2, " "), current_line_length |-> 0]
        ELSE [result |-> result2, current_line_length |-> len2]

RECURSIVE PushWords(_, _, _)
PushWords(acc, words, i) ==
    IF i > Len(words) THEN acc
    ELSE PushWords(PushWord(acc, words[i]), words, i + 1)

\* The loop of clean_content over the joined text.
NormalizeText(text) ==
    PushWords([result |-> << >>, current_line_length |-> 0],
              split_whitespace(text), 1).result

clean_content(html) == NormalizeText(JoinSpace(TextNodes(html)))

(***************************************************************************)
(* fetch_and_process: Result<ScrapedContent>.                              *)
(***************************************************************************)
FetchErr(reason) == [ok |-> FALSE, err |-> reason, content |-> None]

FetchOk(content) == [ok |-> TRUE, err |-> "", content |-> Some(content)]

fetch_and_process(url, response) ==
    IF ~response.sent THEN FetchErr("request failed")
    ELSE IF ~is_success(response.status) THEN FetchErr("status")
    ELSE
      LET is_paywall == detect_paywall(response)
          domain == extract_domain(url)
          parsed_url == UrlParse(url)
      IN  IF ~domain.ok THEN FetchErr(domain.err)
          ELSE IF response.body = None THEN FetchErr("body")
          ELSE IF ~parsed_url.ok THEN FetchErr("url parse")
          ELSE
            LET article == extract(response.body[1], parsed_url)
            IN  IF ~article.ok THEN FetchErr("extract")
                ELSE FetchOk([title |-> article.title,
                              content |-> clean_content(article.content),
                              content_html |-> article.content,
                              is_paywall |-> is_paywall,
                              domain |-> domain.host])


(***************************************************************************)
(* Items, as the item endpoint returns them.                               *)
(***************************************************************************)
ItemUrls(id) == { None, Some(EmptyUrl), Some(GoodUrl(id)), Some(BadUrl) }

\* an item with every optional field but url present
FullItem(id, url) ==
    [id |-> id, by |-> Some("alice"), score |-> Some(7),
     title |-> Some("A story"), url |-> url, descendants |-> Some(4)]

\* an item with only its id and url
BareItem(id, url) ==
    [id |-> id, by |-> None, score |-> None, title |-> None, url |-> url,
     descendants |-> None]

ApiItems(id) == { FullItem(id, u) : u \in ItemUrls(id) }

TopLists == SeqsUpTo(IdSet, MaxIds)

(***************************************************************************)
(* render_html.  The document is kept as its two generated parts: the      *)
(* index entries and the article sections, each with the values the        *)
(* format strings put into it.  Anchor(i) is the text "article-{i}".       *)
(***************************************************************************)
Anchor(i) == << "article-", i >>

\* contents.get(i), i counted from 0
Get(contents, i) == IF i < Len(contents) THEN Some(contents[i + 1]) ELSE None

unwrap_or(opt, default) == IF opt = None THEN default ELSE opt[1]

IndexEntry(i, it) ==
    [href |-> Anchor(i), title |-> unwrap_or(it.title, "[no title]")]

\* the content block built without looking at is_paywall or the slot
ContentBlockAlways(slot) ==
    [notice |-> FALSE,
     domain |-> IF slot # None /\ slot[1] # None THEN Some(slot[1][1].domain)
                ELSE None,
     warning |-> TRUE,
     full |-> IF slot # None /\ slot[1] # None
              THEN Some(slot[1][1].content_html) ELSE None]

\* the content block for slot = contents.get(i)
ContentBlock(slot) ==
    IF slot # None /\ slot[1] # None
    THEN LET content == slot[1][1]
         IN  [notice |-> FALSE, domain |-> Some(content.domain),
              warning |-> content.is_paywall,
              full |-> Some(content.content_html)]
    ELSE [notice |-> TRUE, domain |-> None, warning |-> FALSE, full |-> None]

\* every section given the same anchor
ArticleSectionSameId(i, it, contents) ==
    [id |-> Anchor(0), url |-> unwrap_or(it.url, << "#" >>),
     title |-> unwrap_or(it.title, "[no title]"),
     score |-> unwrap_or(it.score, 0), by |-> unwrap_or(it.by, "unknown"),
     comments |-> unwrap_or(it.descendants, 0),
     content |-> ContentBlock(Get(contents, i))]

ArticleSection(i, it, contents) ==
    [id |-> Anchor(i), url |-> unwrap_or(it.url, << "#" >>),
     title |-> unwrap_or(it.title, "[no title]"),
     score |-> unwrap_or(it.score, 0), by |-> unwrap_or(it.by, "unknown"),
     comments |-> unwrap_or(it.descendants, 0),
     content |-> ContentBlock(Get(contents, i))]

render_html(its, contents) ==
    [index |-> [k \in 1..Len(its) |-> IndexEntry(k - 1, its[k])],
     articles |-> [k \in 1..Len(its) |-> ArticleSection(k - 1, its[k], contents)]]


(***************************************************************************)
(* The run: main and the functions it calls, one step at a time.           *)
(***************************************************************************)
NotFetched == [ok |-> FALSE, err |-> "not called", content |-> None]

fetchVars == << fUrl, fResp >>

normVars == << nIn, nOut, nOut2 >>

\* the values of the variables a specification does not use
IdleRun ==
    /\ err = "" /\ limit = 0 /\ ids = << >> /\ items = << >>
    /\ apiLast = "none" /\ apiCalls = 0 /\ pos = 0 /\ requests = << >>
    /\ console = << >>
    /\ outDir = FALSE /\ written = << >> /\ toolFound = "unknown"
    /\ convStatus = "notrun"

IdleFetch == fUrl = << >> /\ fResp = NoResponse

IdleNorm == nIn = << >> /\ nOut = None /\ nOut2 = None

Init ==
    /\ pc = "start"
    /\ err = ""
    /\ limit \in 0..MaxLimit
    /\ ids = << >>
    /\ items = << >>
    /\ apiLast = "none"
    /\ apiCalls = 0
    /\ stories = None
    /\ pos = 0
    /\ results = << >>
    /\ fetched = NotFetched
    /\ requests = << >>
    /\ console = << >>
    /\ outDir = FALSE
    /\ written = << >>
    /\ htmlDoc = None
    /\ toolFound = "unknown"
    /\ convStatus = "notrun"
    /\ IdleFetch
    /\ IdleNorm

\* main returns Err(reason): the `?` operator
Abort(reason) == pc' = "aborted" /\ err' = reason

\* ids.into_iter().take(limit): how many items the loop requests
TakeCount(n, available) == Min(n, available)

\* fetch_front_page, up to the identifier list
FetchTopList ==
    /\ pc = "start"
    /\ \E outcome \in { "ok", "build_err", "send_err", "json_err" } :
         /\ apiLast' = outcome
         /\ apiCalls' = IF outcome = "build_err" THEN apiCalls ELSE apiCalls + 1
         /\ IF outcome = "ok"
            THEN /\ \E list \in TopLists : ids' = list
                 /\ pc' = "items"
                 /\ err' = err
            ELSE /\ Abort("listing")
                 /\ ids' = ids
    /\ UNCHANGED << limit, items, stories, pos, results, fetched, requests,
                    console, outDir, written, htmlDoc, toolFound, convStatus,
                    fetchVars, normVars >>

\* a failed item request is skipped and the loop goes on
FetchItemSkipFailed ==
    /\ pc = "items"
    /\ Len(items) < TakeCount(limit, Len(ids))
    /\ \E outcome \in { "ok", "send_err", "json_err" } :
         /\ apiLast' = outcome
         /\ apiCalls' = apiCalls + 1
         /\ IF outcome = "ok"
            THEN /\ \E item \in ApiItems(ids[Len(items) + 1]) :
                      items' = Append(items, item)
                 /\ UNCHANGED << pc, err >>
            ELSE /\ items' = Append(items, BareItem(ids[Len(items) + 1], None))
                 /\ UNCHANGED << pc, err >>
    /\ UNCHANGED << limit, ids, stories, pos, results, fetched, requests,
                    console, outDir, written, htmlDoc, toolFound, convStatus,
                    fetchVars, normVars >>

\* fetch_front_page, one pass of the loop over the identifiers
FetchItem ==
    /\ pc = "items"
    /\ Len(items) < TakeCount(limit, Len(ids))
    /\ \E outcome \in { "ok", "send_err", "json_err" } :
         /\ apiLast' = outcome
         /\ apiCalls' = apiCalls + 1
         /\ IF outcome = "ok"
            THEN /\ \E item \in ApiItems(ids[Len(items) + 1]) :
                      items' = Append(items, item)
                 /\ UNCHANGED << pc, err >>
            ELSE /\ items' = << >>
                 /\ Abort("listing")
    /\ UNCHANGED << limit, ids, stories, pos, results, fetched, requests,
                    console, outDir, written, htmlDoc, toolFound, convStatus,
                    fetchVars, normVars >>

\* fetch_front_page returns Ok(items); main binds stories
ReturnItems ==
    /\ pc = "items"
    /\ Len(items) = TakeCount(limit, Len(ids))
    /\ stories' = Some(items)
    /\ items' = << >>
    /\ apiLast' = "none"
    /\ pc' = "mkdir"
    /\ UNCHANGED << apiCalls, err, limit, ids, pos, results, fetched, requests, console,
                    outDir, written, htmlDoc, toolFound, convStatus,
                    fetchVars, normVars >>

\* fs::create_dir_all(&out_dir)?
CreateDir ==
    /\ pc = "mkdir"
    /\ \E ok \in BOOLEAN :
         IF ok THEN outDir' = TRUE /\ pc' = "client" /\ err' = err
         ELSE outDir' = outDir /\ Abort("create_dir")
    /\ UNCHANGED << limit, ids, items, apiLast, apiCalls, stories, pos, results, fetched,
                    requests, console, written, htmlDoc, toolFound, convStatus,
                    fetchVars, normVars >>

\* fetch_article_content, up to the loop: the banner line and the client
AcquireStart ==
    /\ pc = "client"
    /\ console' = Append(console, << "Fetching article content" >>)
    /\ \E ok \in BOOLEAN :
         IF ok THEN pc' = "acquire" /\ err' = err
         ELSE Abort("client")
    /\ pos' = 0
    /\ results' = << >>
    /\ UNCHANGED << limit, ids, items, apiLast, apiCalls, stories, fetched, requests,
                    outDir, written, htmlDoc, toolFound, convStatus,
                    fetchVars, normVars >>

\* the guard of the match on item.url, without the is_empty test
HasUrlNoEmptyTest(item) == item.url # None

\* Some(url) if !url.is_empty()
HasUrl(item) == item.url # None /\ item.url[1] # EmptyUrl

\* the push that follows the match on fetch_and_process, dropping an Err
PushFetchedOkOnly(res, r) == IF r.ok THEN Append(res, r.content) ELSE res

\* the push that follows the match on fetch_and_process
PushFetched(res, r) ==
    IF r.ok THEN Append(res, r.content) ELSE Append(res, None)

\* an Err of fetch_and_process propagated with `?`
AcquireStoryPropagate ==
    /\ pc = "acquire"
    /\ pos < Len(stories[1])
    /\ pos' = pos + 1
    /\ LET item == stories[1][pos + 1]
       IN  IF ~HasUrl(item)
           THEN /\ results' = Append(results, None)
                /\ fetched' = NotFetched
                /\ UNCHANGED << requests, console, pc, err >>
           ELSE \E response \in Responses :
                  LET url == item.url[1]
                      r == fetch_and_process(url, response)
                  IN  /\ requests' = Append(requests, url)
                      /\ fetched' = r
                      /\ console' = Append(console, << "Fetching:" >> \o url)
                      /\ IF r.ok
                         THEN results' = PushFetched(results, r)
                              /\ UNCHANGED << pc, err >>
                         ELSE results' = results /\ Abort("acquire")
    /\ UNCHANGED << limit, ids, items, apiLast, apiCalls, stories, outDir, written,
                    htmlDoc, toolFound, convStatus, fetchVars, normVars >>

\* fetch_article_content, one pass of the loop over the items
AcquireStory ==
    /\ pc = "acquire"
    /\ pos < Len(stories[1])
    /\ pos' = pos + 1
    /\ LET item == stories[1][pos + 1]
       IN  IF ~HasUrl(item)
           THEN /\ results' = Append(results, None)
                /\ fetched' = NotFetched
                /\ UNCHANGED << requests, console >>
           ELSE \E response \in Responses :
                  LET url == item.url[1]
                      r == fetch_and_process(url, response)
                  IN  /\ requests' = Append(requests, url)
                      /\ fetched' = r
                      /\ console' =
                           IF r.ok
                           THEN Append(console, << "Fetching:" >> \o url)
                           ELSE console \o << << "Fetching:" >> \o url,
                                              << "Failed to fetch" >> \o url >>
                      /\ results' = PushFetched(results, r)
    /\ UNCHANGED << pc, err, limit, ids, items, apiLast, apiCalls, stories, outDir,
                    written, htmlDoc, toolFound, convStatus, fetchVars,
                    normVars >>

\* fetch_article_content returns Ok(results)
AcquireReturn ==
    /\ pc = "acquire"
    /\ pos = Len(stories[1])
    /\ fetched' = NotFetched
    /\ pc' = "render"
    /\ UNCHANGED << err, limit, ids, items, apiLast, apiCalls, stories, pos, results,
                    requests, console, outDir, written, htmlDoc, toolFound,
                    convStatus, fetchVars, normVars >>


\* render_html(..)? and fs::write(&html_path, &html)?
WriteHtml ==
    /\ pc = "render"
    /\ htmlDoc' = Some(render_html(stories[1], results))
    /\ \E ok \in BOOLEAN :
         IF ok THEN written' = Append(written, "html") /\ pc' = "text"
                    /\ err' = err
         ELSE written' = written /\ Abort("write html")
    /\ UNCHANGED << limit, ids, items, apiLast, apiCalls, stories, pos, results, fetched,
                    requests, console, outDir, toolFound, convStatus,
                    fetchVars, normVars >>

\* html2text::from_read and fs::write(&text_path, text)?
WriteText ==
    /\ pc = "text"
    /\ \E ok \in BOOLEAN :
         IF ok THEN written' = Append(written, "txt") /\ pc' = "which"
                    /\ err' = err
         ELSE written' = written /\ Abort("write txt")
    /\ UNCHANGED << limit, ids, items, apiLast, apiCalls, stories, pos, results, fetched,
                    requests, console, outDir, htmlDoc, toolFound, convStatus,
                    fetchVars, normVars >>

\* which::which("wkhtmltopdf").is_ok(), the first time
CheckConverter ==
    /\ pc = "which"
    /\ \E found \in BOOLEAN :
         /\ toolFound' = IF found THEN "yes" ELSE "no"
         /\ pc' = IF found THEN "convert" ELSE "summary"
    /\ UNCHANGED << err, limit, ids, items, apiLast, apiCalls, stories, pos, results,
                    fetched, requests, console, outDir, written, htmlDoc,
                    convStatus, fetchVars, normVars >>

\* the converter's outcome propagated with `?` instead of discarded
RunConverterPropagate ==
    /\ pc = "convert"
    /\ \E outcome \in { "ok", "failed", "nospawn" } :
         /\ convStatus' = outcome
         /\ written' = IF outcome = "ok" THEN Append(written, "pdf")
                       ELSE written
         /\ IF outcome = "nospawn" THEN Abort("convert")
            ELSE pc' = "summary" /\ err' = err
    /\ UNCHANGED << limit, ids, items, apiLast, apiCalls, stories, pos,
                    results, fetched, requests, console, outDir, htmlDoc,
                    toolFound, fetchVars, normVars >>

\* Command::new("wkhtmltopdf")...status().ok(): the outcome is discarded.
\*   "ok"       the tool ran and wrote the pdf
\*   "failed"   the tool ran and exited without writing it
\*   "nospawn"  the process could not be started
RunConverter ==
    /\ pc = "convert"
    /\ \E outcome \in { "ok", "failed", "nospawn" } :
         /\ convStatus' = outcome
         /\ written' = IF outcome = "ok" THEN Append(written, "pdf")
                       ELSE written
    /\ pc' = "summary"
    /\ UNCHANGED << err, limit, ids, items, apiLast, apiCalls, stories, pos, results,
                    fetched, requests, console, outDir, htmlDoc, toolFound,
                    fetchVars, normVars >>

\* The summary lines.  The second which::which answers as the first did:
\* the host's search path does not change during the run.
PrintSummary ==
    /\ pc = "summary"
    /\ console' = console \o << << "Files generated in" >>, << "-", "html" >>,
                                << "-", "txt" >> >>
                          \o (IF toolFound = "yes" THEN << << "-", "pdf" >> >>
                              ELSE << >>)
    /\ pc' = "done"
    /\ UNCHANGED << err, limit, ids, items, apiLast, apiCalls, stories, pos, results,
                    fetched, requests, outDir, written, htmlDoc, toolFound,
                    convStatus, fetchVars, normVars >>

Next ==
    \/ FetchTopList
    \/ FetchItem
    \/ ReturnItems
    \/ CreateDir
    \/ AcquireStart
    \/ AcquireStory
    \/ AcquireReturn
    \/ WriteHtml
    \/ WriteText
    \/ CheckConverter
    \/ RunConverter
    \/ PrintSummary

Spec == Init /\ [][Next]_vars


(***************************************************************************)
(* fetch_and_process on its own: every url and every answer of the         *)
(* network, one call.                                                      *)
(***************************************************************************)
FetchUrls == { GoodUrl(id) : id \in IdSet } \cup { BadUrl, NoHostUrl }

InitFetch ==
    /\ pc = "fetch_call"
    /\ fUrl \in FetchUrls
    /\ fResp \in Responses
    /\ fetched = NotFetched
    /\ stories = None
    /\ results = << >>
    /\ htmlDoc = None
    /\ IdleRun
    /\ IdleNorm

FetchCall ==
    /\ pc = "fetch_call"
    /\ fetched' = fetch_and_process(fUrl, fResp)
    /\ pc' = "fetch_done"
    /\ UNCHANGED << err, limit, ids, items, apiLast, apiCalls, stories, pos,
                    results, requests, console, outDir, written, htmlDoc,
                    toolFound, convStatus, fetchVars, normVars >>

NextFetch == FetchCall

SpecFetch == InitFetch /\ [][NextFetch]_vars

(***************************************************************************)
(* The normalization of clean_content on its own: texts built from         *)
(* whitespace characters and from words shorter than, as long as and       *)
(* longer than the soft-break length; normalized once, then again.         *)
(***************************************************************************)
Word(c, n) == [i \in 1..n |-> c]

Segments ==
    { << " " >>, << "\t" >>, << "\n" >>, Word("a", 1),
      Word("b", SoftBreakLen), Word("c", SoftBreakLen + 1) }

NormInputs == { Flatten(ss) : ss \in SeqsUpTo(Segments, MaxSegs) }

InitNorm ==
    /\ pc = "norm_call"
    /\ nIn \in NormInputs
    /\ nOut = None
    /\ nOut2 = None
    /\ fetched = NotFetched
    /\ stories = None
    /\ results = << >>
    /\ htmlDoc = None
    /\ IdleRun
    /\ IdleFetch

NormalizeOnce ==
    /\ pc = "norm_call"
    /\ nOut' = Some(NormalizeText(nIn))
    /\ pc' = "norm_again"
    /\ UNCHANGED << err, limit, ids, items, apiLast, apiCalls, stories, pos,
                    results, fetched, requests, console, outDir, written,
                    htmlDoc, toolFound, convStatus, nIn, nOut2, fetchVars >>

NormalizeAgain ==
    /\ pc = "norm_again"
    /\ nOut2' = Some(NormalizeText(nOut[1]))
    /\ pc' = "norm_done"
    /\ UNCHANGED << err, limit, ids, items, apiLast, apiCalls, stories, pos,
                    results, fetched, requests, console, outDir, written,
                    htmlDoc, toolFound, convStatus, nIn, nOut, fetchVars >>

NextNorm == NormalizeOnce \/ NormalizeAgain

SpecNorm == InitNorm /\ [][NextNorm]_vars

(***************************************************************************)
(* render_html on its own: every list of items against every sequence of   *)
(* contents, of equal or different length.                                 *)
(***************************************************************************)
HtmlArticle ==
    [sent |-> TRUE, status |-> 200, ctype |-> Some(CtHtmlCharset),
     body |-> Some("article")]

PdfArticle ==
    [sent |-> TRUE, status |-> 200, ctype |-> Some(CtPdf),
     body |-> Some("article")]

RenderItems == { FullItem(1, Some(GoodUrl(1))), BareItem(2, None) }

RenderContents ==
    { None, fetch_and_process(GoodUrl(1), HtmlArticle).content,
      fetch_and_process(GoodUrl(2), PdfArticle).content }

InitRender ==
    /\ pc = "render_call"
    /\ \E its \in SeqsUpTo(RenderItems, MaxRender) : stories = Some(its)
    /\ results \in SeqsUpTo(RenderContents, MaxRender)
    /\ htmlDoc = None
    /\ fetched = NotFetched
    /\ IdleRun
    /\ IdleFetch
    /\ IdleNorm

RenderCall ==
    /\ pc = "render_call"
    /\ htmlDoc' = Some(render_html(stories[1], results))
    /\ pc' = "render_done"
    /\ UNCHANGED << err, limit, ids, items, apiLast, apiCalls, stories, pos,
                    results, fetched, requests, console, outDir, written,
                    toolFound, convStatus, fetchVars, normVars >>

NextRender == RenderCall

SpecRender == InitRender /\ [][NextRender]_vars


(***************************************************************************)
(* Properties.                                                             *)
(***************************************************************************)
Range(f) == { f[i] : i \in DOMAIN f }

\* a story without a usable link: url absent, or the empty string
Linkless(story) == story.url = None \/ Len(story.url[1]) = 0

\* the slots fetch_and_process can produce for a story's url
OutcomesOfUrl ==
    [u \in FetchUrls |->
        { PushFetched(<< >>, fetch_and_process(u, r))[1] : r \in Responses }]

Outcomes(story) == OutcomesOfUrl[story.url[1]]

AfterAcquire == { "render", "text", "which", "convert", "summary", "done" }

\* C1: when the limit is at most the number of identifiers listed, listing
\* yields exactly `limit` stories, the first `limit` identifiers in order;
\* the result sequence has one entry per story processed so far, entry i
\* being an outcome of story i (unavailable for a linkless story, else what
\* fetch_and_process makes of that story's url); and once acquisition has
\* returned it has exactly as many entries as there are stories.
C1_ResultsAlignWithStories ==
    /\ pos = Len(results)
    /\ stories # None =>
         LET st == stories[1]
         IN  /\ limit <= Len(ids) =>
                  /\ Len(st) = limit
                  /\ \A i \in 1..limit : st[i].id = ids[i]
             /\ Len(results) <= Len(st)
             /\ \A i \in 1..Len(results) :
                  IF Linkless(st[i]) THEN results[i] = None
                  ELSE results[i] \in Outcomes(st[i])
             /\ pc \in AfterAcquire => Len(results) = Len(st)

C1_Witness ==
    /\ pc = "render"
    /\ limit = 2
    /\ Len(ids) = 3
    /\ ids[1] # ids[2]
    /\ Len(results) = 2
    /\ results[1] = None
    /\ results[2] # None

\* C2: a pass of the acquisition loop in which fetch_and_process fails
\* (request error, non-success status, unreadable body, unparsable or
\* hostless url, extraction failure) appends "unavailable" for that story
\* and nothing else: the earlier slots stay, the run does not abort and the
\* loop goes on to the next story; acquisition returns only with a slot for
\* every story.
FetchFailures ==
    { "request failed", "status", "body", "url parse", "no host", "extract" }

C2_FailureIsolated ==
    /\ [][ (pc = "acquire" /\ ~fetched'.ok /\ fetched'.err \in FetchFailures)
             => /\ results' = Append(results, None)
                /\ pc' = "acquire"
                /\ err' = ""
                /\ pos' = pos + 1 ]_vars
    /\ [](pc \in AfterAcquire => Len(results) = Len(stories[1]))

C2_Witness ==
    /\ pc = "render"
    /\ Len(results) = 3
    /\ results[1] # None
    /\ results[2] = None
    /\ ~Linkless(stories[1][2])
    /\ results[3] # None

\* C3: when the request for the identifier list or for any item fails (or
\* its JSON does not parse, or the client cannot be built), the run has
\* aborted with the listing error, no story list is bound (not even the
\* items fetched so far), the output directory does not exist, no article
\* was requested and nothing was rendered or written.
ListingFailures == { "build_err", "send_err", "json_err" }

C3_ListingFailFast ==
    (apiLast \in ListingFailures \/ (pc = "aborted" /\ err = "listing")) =>
        /\ pc = "aborted"
        /\ err = "listing"
        /\ stories = None
        /\ items = << >>
        /\ ~outDir
        /\ requests = << >>
        /\ written = << >>
        /\ htmlDoc = None

\* the request for the second of at least two items failed
C3_Witness ==
    /\ pc = "aborted"
    /\ apiLast = "send_err"
    /\ apiCalls = 3
    /\ limit >= 2
    /\ Len(ids) >= 2

\* C4: no GET is issued for a linkless story and its slot is unavailable:
\* the requests issued so far are exactly the urls of the processed stories
\* that have a non-empty url, in order.
RECURSIVE LinkedUrls(_, _)
LinkedUrls(st, n) ==
    IF n = 0 THEN << >>
    ELSE IF Linkless(st[n]) THEN LinkedUrls(st, n - 1)
    ELSE Append(LinkedUrls(st, n - 1), st[n].url[1])

C4_NoRequestWithoutUrl ==
    stories # None =>
        /\ requests = LinkedUrls(stories[1], pos)
        /\ \A i \in 1..Len(results) :
             Linkless(stories[1][i]) => results[i] = None

C4_Witness ==
    /\ pc = "render"
    /\ Len(results) = 3
    /\ stories[1][1].url = None
    /\ stories[1][2].url = Some(EmptyUrl)
    /\ ~Linkless(stories[1][3])
    /\ Len(requests) = 1


\* A content-type header declares HTML when its media type, the part before
\* any ";" parameter, is text/html; media types compare without regard to
\* case.
Lower(c) ==
    CASE c = "T" -> "t" [] c = "E" -> "e" [] c = "X" -> "x" [] c = "H" -> "h"
      [] c = "M" -> "m" [] c = "L" -> "l" [] OTHER -> c

MediaType(value) ==
    LET semis == { i \in 1..Len(value) : value[i] = ";" }
        stop == IF semis = { } THEN Len(value)
                ELSE (CHOOSE i \in semis : \A j \in semis : i <= j) - 1
    IN  [i \in 1..stop |-> Lower(value[i])]

DeclaresHtml(header) == header # None /\ MediaType(header[1]) = TextHtml

\* C5: a page fetched with a success status and extractable content gets
\* is_paywall = TRUE when the declared content type is not an HTML type or
\* is missing, and is_paywall = FALSE when it is an HTML type; the content
\* type alone never makes the fetch fail.
C5_PaywallIffNotHtml ==
    pc = "fetch_done" =>
        /\ fetched.ok => fetched.content[1].is_paywall = ~DeclaresHtml(fResp.ctype)
        /\ fetched.ok =
             fetch_and_process(fUrl, [fResp EXCEPT !.ctype = Some(CtHtml)]).ok

\* C6: normalizing twice gives what normalizing once gives; the normalized
\* text has no two whitespace characters in a row and no whitespace
\* character but the space; and it has the words of the input, in order.
NonWs(text) == SelectSeq(text, LAMBDA c : c \notin Whitespace)

\* how many non-whitespace characters precede each word break
Breaks(text) ==
    { Len(NonWs(SubSeq(text, 1, i))) :
        i \in { k \in 1..Len(text) : text[k] \in Whitespace } }
    \ { 0, Len(NonWs(text)) }

SameWords(s, t) == NonWs(s) = NonWs(t) /\ Breaks(s) = Breaks(t)

C6_NormalizeIdempotent ==
    pc = "norm_done" =>
        /\ nOut2 = nOut
        /\ \A i \in 1..Len(nOut[1]) :
             nOut[1][i] \in Whitespace =>
                /\ nOut[1][i] = " "
                /\ i < Len(nOut[1]) => nOut[1][i + 1] \notin Whitespace
        /\ SameWords(nIn, nOut[1])

\* a word longer than the soft-break length, a whitespace run, a short word
C6_Witness ==
    /\ pc = "norm_done"
    /\ nIn = Word("c", SoftBreakLen + 1) \o << "\t", "\n" >> \o Word("a", 1)
    /\ nOut = Some(Word("c", SoftBreakLen + 1) \o << " " >> \o Word("a", 1))

\* C7: the rendered document has one index entry and one article section per
\* story; entry i links to article-i, section i has the id article-i and is
\* built from story i; no two sections share an id.
C7_IndexMatchesSections ==
    pc = "render_done" =>
        LET st == stories[1]
            doc == htmlDoc[1]
        IN  /\ Len(doc.index) = Len(st)
            /\ Len(doc.articles) = Len(st)
            /\ \A i \in 1..Len(st) :
                 /\ doc.index[i].href = << "article-", i - 1 >>
                 /\ doc.articles[i].id = doc.index[i].href
                 /\ doc.articles[i].url =
                      IF st[i].url = None THEN << "#" >> ELSE st[i].url[1]
                 /\ doc.articles[i].title = doc.index[i].title
                 /\ doc.index[i].title =
                      IF st[i].title = None THEN "[no title]" ELSE st[i].title[1]
            /\ \A i, j \in 1..Len(st) :
                 doc.articles[i].id = doc.articles[j].id => i = j

C7_Witness ==
    /\ pc = "render_done"
    /\ Len(stories[1]) = 3
    /\ stories[1][1] # stories[1][2]
    /\ Len(results) = 1
    /\ Len(htmlDoc[1].articles) = 3

\* C9: the content block of section i is decided by slot i alone.  A present
\* slot gives the domain, the extracted HTML and the paywall banner exactly
\* when the slot's flag is set; an unavailable slot gives the placeholder
\* notice and no domain, banner or content.  So there are as many notices
\* as unavailable slots and as many full blocks as present slots.
Present(contents, i) == i <= Len(contents) /\ contents[i] # None

C9_BlockFollowsSlot ==
    pc = "render_done" =>
        LET st == stories[1]
            doc == htmlDoc[1]
            block(i) == doc.articles[i].content
        IN  /\ \A i \in 1..Len(st) :
                 IF Present(results, i)
                 THEN /\ ~block(i).notice
                      /\ block(i).domain = Some(results[i][1].domain)
                      /\ block(i).full = Some(results[i][1].content_html)
                      /\ block(i).warning = results[i][1].is_paywall
                 ELSE /\ block(i).notice
                      /\ block(i).domain = None
                      /\ block(i).full = None
                      /\ ~block(i).warning
            /\ Cardinality({ i \in 1..Len(st) : block(i).notice }) =
                 Cardinality({ i \in 1..Len(st) : ~Present(results, i) })
            /\ Cardinality({ i \in 1..Len(st) : block(i).full # None }) =
                 Cardinality({ i \in 1..Len(st) : Present(results, i) })

\* slots [unavailable, unavailable, present and flagged]
C9_Witness ==
    /\ pc = "render_done"
    /\ Len(stories[1]) = 3
    /\ Len(results) = 3
    /\ results[1] = None
    /\ results[2] = None
    /\ results[3] # None
    /\ results[3][1].is_paywall
    /\ htmlDoc[1].articles[3].content.warning
    /\ htmlDoc[1].articles[1].content.notice


Finished == pc \in { "done", "aborted" }

Before(a, b, log) ==
    \E i, j \in 1..Len(log) : i < j /\ log[i] = a /\ log[j] = b

\* C8 as stated: once listing has succeeded, a run that has ended has
\* completed successfully and has written the HTML and the text artifact.
C8_AlwaysCompletes ==
    (stories # None /\ Finished) =>
        /\ pc = "done"
        /\ "html" \in Range(written)
        /\ "txt" \in Range(written)

\* C8, amended: once listing has succeeded the run can fail only where main
\* creates the output directory, builds the article client or writes the
\* HTML or the text artifact; no acquisition outcome and no converter
\* outcome ends it.  A run that is not finished can take a step; a completed
\* run has written the HTML artifact and then the text artifact; the
\* converter is looked for and run only after both are written.
OutputFailures == { "create_dir", "client", "write html", "write txt" }

C8_CompletesUnlessOutputFails ==
    /\ (stories # None /\ pc = "aborted") => err \in OutputFailures
    /\ (stories # None /\ ~Finished) => ENABLED Next
    /\ pc = "done" => /\ Len(written) >= 2
                      /\ written[1] = "html"
                      /\ written[2] = "txt"
                      /\ Len(results) = Len(stories[1])
    /\ "txt" \in Range(written) => Before("html", "txt", written)
    /\ (toolFound # "unknown" \/ convStatus # "notrun") =>
          Before("html", "txt", written)

\* a completed run with an unavailable story and a failed converter
C8_Witness ==
    /\ pc = "done"
    /\ convStatus = "failed"
    /\ Len(results) = 2
    /\ results[1] = None
    /\ ~Linkless(stories[1][1])
    /\ results[2] # None
    /\ written = << "html", "txt" >>

\* C10: the summary lists the HTML and the text file, and lists the
\* paginated document exactly when the converter was found and its run
\* produced the document.
C10_SummaryListsGenerated ==
    pc = "done" =>
        /\ << "-", "html" >> \in Range(console)
        /\ << "-", "txt" >> \in Range(console)
        /\ << "-", "pdf" >> \in Range(console)
             <=> (toolFound = "yes" /\ convStatus = "ok"
                  /\ "pdf" \in Range(written))


=============================================================================
